---- MODULE Spec2Model ----
(***************************************************************************)
(* The report-generation pipeline of the IM Draft Generator: one Streamlit *)
(* session holding report_list and report_to_display, the generate         *)
(* handler, the report-list buttons and generate_report_flow, for the two  *)
(* entry scripts of the repository (app.py and streamlit_app.py).          *)
(*                                                                         *)
(* A session runs one script at a time: the generate handler blocks in     *)
(* asyncio.run(generate_report_flow(...)) until the flow returns.  A       *)
(* widget event that arrives while the flow is awaiting a stage makes      *)
(* Streamlit rerun the script: the flow in progress is abandoned (it never *)
(* reaches its append) and the handler of the event runs.  One step of a   *)
(* run is one awaited stage call together with the code that follows it up *)
(* to the next await.                                                      *)
(***************************************************************************)
EXTENDS Integers, Sequences, FiniteSets, TLC

\* ------------------------------------------------------------------ bounds
\* Runs started in a session explored with every stage outcome.
RunBudget == 1
\* The longest corp_list.json snapshot short_list is applied to.
MaxSnapshot == 2
\* The most tool calls one model response carries.
MaxToolCalls == 2
\* Runs started in a session explored with the short outcome lists.
SessionBudget == 3

\* ------------------------------------------------------------ python values
\* A key a dict does not hold / a local that was never assigned.
Absent == "<absent>"
\* Python's None where the code compares against it.
PyNone == "<None>"

Variants == {"app", "streamlit"}
\* The company URLs typed in a session ("": the empty text input).
Urls == {"", "u1"}
SessionUrls == {"", "u1", "u2"}
Languages == {"english", "korean"}
Stages == {"resolver", "filing_search", "matcher", "selector", "fetcher", "synthesizer"}

PAGE_REPORT_GENERATOR == "Report Generator"
PAGE_COMBINED_CHAT == "Chat With Tools"
Pages == {PAGE_REPORT_GENERATOR, PAGE_COMBINED_CHAT}

NotInDartList == "This company is not in the dart list"
ErrorLoadingList == "Error loading company list"

VARIABLES variant, current_page, report_list, report_to_display, run, nruns, lastReq,
          short_list_call, matcher_call, resolver_call, environ

vars == <<variant, current_page, report_list, report_to_display, run, nruns, lastReq,
          short_list_call, matcher_call, resolver_call, environ>>

\* ------------------------------------------------------------- report_data
NoCompanyData == [kind |-> Absent, company_name |-> Absent]
NoFilingsData == [kind |-> Absent, filings |-> <<>>]
NoShortList == [kind |-> Absent, str |-> "", list |-> <<>>]

new_report_data(url, language) ==
    [url |-> url, language |-> language,
     company_data |-> NoCompanyData,
     filings_data |-> NoFilingsData,
     corp_short_list_data |-> NoShortList,
     corp_code_data |-> <<>>,
     report_source |-> Absent,
     web_search_reason |-> Absent,
     report |-> Absent]

NoCalls == [s \in Stages |-> 0]
NoOutcome == [s \in Stages |-> "-"]

\* The locals of one generate_report_flow call, its position (pc), and the
\* record of what each stage was asked and answered in this run (calls, out,
\* synth_path, synth_sources, synth_ws, temp_dir, fetch_case, fs_results),
\* the save tasks dart_search dispatched and has not seen finish (pending)
\* and the statement files written so far (saved); appended: the flow has
\* put its report_data in report_list.
NewRun(url, language) ==
    [pc |-> "resolve",
     report_data |-> new_report_data(url, language),
     use_web_search |-> FALSE,
     web_search_reason |-> "",
     corp_code_value |-> "N/A",
     urls |-> <<>>,
     doc_path |-> PyNone,
     temp_dir |-> "-",
     calls |-> NoCalls,
     out |-> NoOutcome,
     synth_path |-> "-",
     synth_sources |-> <<>>,
     synth_ws |-> "-",
     fetch_case |-> "-",
     fs_results |-> <<>>,
     pending |-> {},
     saved |-> {},
     gather_failed |-> FALSE,
     appended |-> FALSE]

IdleRun == [NewRun("", "") EXCEPT !.pc = "idle"]

InProgress == {"resolve", "sec_search", "sec_report", "match", "select",
               "fetch", "saving", "dart_web", "dart_fallback", "dart_hybrid"}

Running(r) == r.pc \in InProgress

exit_temp_dir_keeps_it(r) == r

\* Leaving `with tempfile.TemporaryDirectory() as temp_dir:` by any way
\* (fall through, return, exception) removes the directory.
exit_temp_dir(r) ==
    [r EXCEPT !.temp_dir = IF r.temp_dir = "exists" THEN "removed" ELSE r.temp_dir]

\* Streamlit reruns the script on a widget event: the flow in progress stops
\* at its next st.* call, before its append; leaving the with-block removes
\* the temporary directory.
StopRun(r) ==
    IF Running(r)
    THEN [exit_temp_dir(r) EXCEPT !.pc = "stopped"]
    ELSE r

\* ------------------------------------------------------------------- Init
\* os.environ of the server process, as far as the program writes it: the
\* variable DOC_PATH (Absent until dart_get_report first sets it).
NoEnviron == [DOC_PATH |-> Absent]

\* matcher_call holds one application of get_dart_company_information under
\* MatcherSpec, resolver_call one application of
\* generate_company_information under ResolverSpec; both stay idle otherwise.
NoMatcherCall == [remote |-> "-", result |-> "-", returned |-> TRUE]
NoResolverCall == [first |-> "-", followup |-> "-", result |-> "-", returned |-> TRUE]
NoRequest ==
    [url |-> "", language |-> "english", dup |-> FALSE, busy_same |-> FALSE,
     started |-> FALSE, made |-> FALSE]

\* short_list is not called by the flows of either script (only by the
\* uncalled generate_report_flow_async); short_list_call holds one
\* application of it under ShortListSpec and stays idle otherwise.
NoShortListCall ==
    [loadable |-> TRUE, lis |-> <<>>, company_name |-> <<>>,
     company_first_name |-> <<>>, result |-> [kind |-> "-", str |-> "", list |-> <<>>],
     returned |-> TRUE]

Init ==
    /\ variant \in Variants
    /\ current_page = PAGE_REPORT_GENERATOR
    /\ report_list = <<>>
    /\ report_to_display = <<>>
    /\ run = IdleRun
    /\ nruns = 0
    /\ lastReq = NoRequest
    /\ short_list_call = NoShortListCall
    /\ matcher_call = NoMatcherCall
    /\ resolver_call = NoResolverCall
    /\ environ = NoEnviron

\* ------------------------------------------------------- generate handler
is_duplicate_never(list, url, language) ==
    \E i \in 1..Len(list) :
        list[i].url = url /\ list[i].language = url

is_duplicate(list, url, language) ==
    \E i \in 1..Len(list) : list[i].url = url /\ list[i].language = language

\* next((r for r in report_list if ...), None): the first listed report of
\* the key, <<>> for None.
existing_report(list, url, language) ==
    LET Matches(r) == r.url = url /\ r.language = language
        found == SelectSeq(list, Matches)
    IN  IF found = <<>> THEN <<>> ELSE <<Head(found)>>

SameKeyRunning(url, language) ==
    /\ Running(run)
    /\ run.report_data.url = url
    /\ run.report_data.language = language

Request(url, language, dup, started) ==
    [url |-> url, language |-> language, dup |-> dup,
     busy_same |-> SameKeyRunning(url, language),
     started |-> started, made |-> TRUE]

\* app.py: the "Generate Report" button of render_report_generator_page.
AppGenerate(budget, urls) ==
    /\ variant = "app"
    /\ current_page = PAGE_REPORT_GENERATOR
    /\ \E url \in urls, language \in Languages :
        IF url = ""
        THEN /\ run' = StopRun(run)
             /\ lastReq' = Request(url, language, FALSE, FALSE)
             /\ UNCHANGED <<variant, short_list_call, matcher_call, resolver_call, environ, current_page, report_list, report_to_display, nruns>>
        ELSE IF is_duplicate(report_list, url, language)
        THEN /\ report_to_display' =
                    IF existing_report(report_list, url, language) # <<>>
                    THEN existing_report(report_list, url, language)
                    ELSE report_to_display
             /\ run' = StopRun(run)
             /\ lastReq' = Request(url, language, TRUE, FALSE)
             /\ UNCHANGED <<variant, short_list_call, matcher_call, resolver_call, environ, current_page, report_list, nruns>>
        ELSE /\ nruns < budget
             /\ run' = NewRun(url, language)
             /\ nruns' = nruns + 1
             /\ lastReq' = Request(url, language, FALSE, TRUE)
             /\ UNCHANGED <<variant, short_list_call, matcher_call, resolver_call, environ, current_page, report_list, report_to_display>>

\* streamlit_app.py: the sidebar "Generate Report" button.
StreamlitGenerate(budget, urls) ==
    /\ variant = "streamlit"
    /\ \E url \in urls, language \in Languages :
        IF url = ""
        THEN /\ run' = StopRun(run)
             /\ lastReq' = Request(url, language, FALSE, FALSE)
             /\ UNCHANGED <<variant, short_list_call, matcher_call, resolver_call, environ, current_page, report_list, report_to_display, nruns>>
        ELSE IF is_duplicate(report_list, url, language)
        THEN /\ run' = StopRun(run)
             /\ lastReq' = Request(url, language, TRUE, FALSE)
             /\ UNCHANGED <<variant, short_list_call, matcher_call, resolver_call, environ, current_page, report_list, report_to_display, nruns>>
        ELSE /\ nruns < budget
             /\ run' = NewRun(url, language)
             /\ nruns' = nruns + 1
             /\ lastReq' = Request(url, language, FALSE, TRUE)
             /\ UNCHANGED <<variant, short_list_call, matcher_call, resolver_call, environ, current_page, report_list, report_to_display>>

\* ---------------------------------------------------- report-list buttons
set_report_to_display(report) ==
    /\ report_to_display' = report
    /\ run' = StopRun(run)
    /\ lastReq' = NoRequest
    /\ UNCHANGED <<variant, short_list_call, matcher_call, resolver_call, environ, current_page, report_list, nruns>>

\* "View ..." button of a listed report (both scripts).
ViewReport ==
    /\ current_page = PAGE_REPORT_GENERATOR
    /\ \E i \in 1..Len(report_list) : set_report_to_display(<<report_list[i]>>)

\* "Clear Report Display" (app.py) / "View Instructions" (streamlit_app.py).
ClearDisplay ==
    /\ current_page = PAGE_REPORT_GENERATOR
    /\ report_to_display # <<>>
    /\ set_report_to_display(<<>>)

\* app.py: every report equal to the removed one leaves the list, and the
\* display is cleared when it shows the removed report.
remove_report_from_list(report_to_remove) ==
    LET Keep(r) == r # report_to_remove
    IN  /\ report_list' = SelectSeq(report_list, Keep)
        /\ report_to_display' =
               IF report_to_display = <<report_to_remove>> THEN <<>>
               ELSE report_to_display
        /\ run' = StopRun(run)
        /\ lastReq' = NoRequest
        /\ UNCHANGED <<variant, short_list_call, matcher_call, resolver_call, environ, current_page, nruns>>

AppRemove ==
    /\ variant = "app"
    /\ current_page = PAGE_REPORT_GENERATOR
    /\ \E i \in 1..Len(report_list) : remove_report_from_list(report_list[i])

\* list.remove(x): the first element equal to x leaves the list.
list_remove(list, x) ==
    LET i == CHOOSE j \in 1..Len(list) :
                 list[j] = x /\ \A k \in 1..(j - 1) : list[k] # x
    IN  [j \in 1..(Len(list) - 1) |-> IF j < i THEN list[j] ELSE list[j + 1]]

\* streamlit_app.py: the delete button only removes from report_list.
StreamlitRemove ==
    /\ variant = "streamlit"
    /\ \E i \in 1..Len(report_list) :
           report_list' = list_remove(report_list, report_list[i])
    /\ run' = StopRun(run)
    /\ lastReq' = NoRequest
    /\ UNCHANGED <<variant, short_list_call, matcher_call, resolver_call, environ, current_page, report_to_display, nruns>>

\* app.py: a sidebar navigation button.
navigate_to(page_name) ==
    /\ current_page' = page_name
    /\ report_to_display' = <<>>
    /\ run' = StopRun(run)
    /\ lastReq' = NoRequest
    /\ UNCHANGED <<variant, short_list_call, matcher_call, resolver_call, environ, report_list, nruns>>

AppNavigate ==
    /\ variant = "app"
    /\ \E page_name \in Pages : navigate_to(page_name)

\* ------------------------------------------------------- stage outcomes
\* What generate_company_information hands back: it raises, returns nothing
\* usable, an {"error": ...} object, or an identity whose company_name is
\* missing, 'N/A', "unknown" or a proper name.
ResolverOutcomes == {"raise", "none", "error", "noname", "na", "unknown", "ok"}

company_data_of(o) ==
    [kind |-> IF o \in {"none", "error"} THEN o ELSE "dict",
     company_name |-> CASE o = "na" -> "N/A"
                        [] o = "unknown" -> "unknown"
                        [] o = "ok" -> "Acme Corp"
                        [] OTHER -> Absent]

\* company_data.get('company_name', 'N/A')
get_company_name(company_data) ==
    IF company_data.company_name = Absent THEN "N/A" ELSE company_data.company_name

\* sec_search: raises, returns nothing / no 'filings', or a dict whose
\* 'filings' list holds each filing's filingUrl (Absent: the key is missing).
SecRaise == [kind |-> "raise", filings |-> <<>>]
SecNone == [kind |-> "none", filings |-> <<>>]
SecDict(filings) == [kind |-> "dict", filings |-> filings]
SecSearchOutcomes ==
    {SecRaise, SecNone, SecDict(<<>>), SecDict(<<"f1">>),
     SecDict(<<"f1", "f2", "f3">>), SecDict(<<Absent, "f2">>)}

\* [filing['filingUrl'] for filing in filings if 'filingUrl' in filing]
HasFilingUrl(filing) == filing # Absent

filing_urls_first_two(filings_data) ==
    IF filings_data.kind # "dict" \/ filings_data.filings = <<>>
    THEN <<>>
    ELSE LET urls == SelectSeq(filings_data.filings, HasFilingUrl)
         IN  SubSeq(urls, 1, IF Len(urls) < 2 THEN Len(urls) ELSE 2)

filing_urls(filings_data) ==
    IF filings_data.kind # "dict" \/ filings_data.filings = <<>>
    THEN <<>>
    ELSE SelectSeq(filings_data.filings, HasFilingUrl)

SynthOutcomes == {"ok", "raise"}
\* The call itself fails: dart_get_report() got an unexpected keyword.
TypeErrorRaised == "TypeError"
ReportText == "REPORT"
ErrorGeneratingReport == "Error generating report: <exception>"
NoCorpCodeReport == "Could not obtain DART Corp Code for document search."

\* --------------------------------------------------- steps shared by flows
Called(r, stage, outcome) ==
    [r EXCEPT !.calls[stage] = @ + 1, !.out[stage] = outcome]

\* A dart_get_report / sec_get_report call and its outcome.
Synthesize(r, o, path, sources) ==
    [Called(r, "synthesizer", o) EXCEPT !.synth_path = path,
                                        !.synth_sources = sources,
                                        !.synth_ws = r.temp_dir]

\* os.environ after the step that took the flow from run to r: a
\* dart_get_report call that was given a path has executed
\* os.environ['DOC_PATH'] = path before the researcher started (so also
\* when the researcher then raised); nothing else writes it, and a call
\* that fails with TypeError never enters the function.
environ_after(r) ==
    IF /\ r.calls["synthesizer"] > run.calls["synthesizer"]
       /\ r.report_data.language = "korean"
       /\ r.synth_path # PyNone
       /\ r.out["synthesizer"] # TypeErrorRaised
    THEN [environ EXCEPT !.DOC_PATH = r.synth_path]
    ELSE environ

\* "return" inside generate_report_flow: the flow ends, nothing is appended.
Return(r) ==
    /\ run' = [exit_temp_dir(r) EXCEPT !.pc = "aborted"]
    /\ lastReq' = NoRequest
    /\ environ' = environ_after(r)
    /\ UNCHANGED <<variant, short_list_call, matcher_call, resolver_call, current_page, report_list, report_to_display, nruns>>

Continue(r, pc) ==
    /\ run' = [r EXCEPT !.pc = pc]
    /\ lastReq' = NoRequest
    /\ environ' = environ_after(r)
    /\ UNCHANGED <<variant, short_list_call, matcher_call, resolver_call, current_page, report_list, report_to_display, nruns>>

\* The identity checks after generate_company_information returned o.
identity_usable_any_name(company_data) ==
    company_data.kind = "dict"

identity_usable_unknown_sentinel(company_data) ==
    /\ company_data.kind = "dict"
    /\ get_company_name(company_data) # "unknown"

identity_usable(company_data) ==
    /\ company_data.kind = "dict"
    /\ get_company_name(company_data) # "N/A"

resolve_step(r, o) ==
    LET r1 == Called(r, "resolver", o)
        company_data == company_data_of(o)
        r2 == [r1 EXCEPT !.report_data.company_data = company_data]
    IN  IF o = "raise" THEN Return(r1)
        ELSE IF ~identity_usable(company_data) THEN Return(r2)
        ELSE IF r.report_data.language = "english" THEN Continue(r2, "sec_search")
        ELSE Continue(r2, "match")

\* ------------------------------------------ app.py: generate_report_flow
\* The end of the flow: display the report and append it unless its key is
\* already listed; st.rerun() then ends the script.
AppFinish(r) ==
    /\ report_to_display' = <<r.report_data>>
    /\ report_list' =
           IF ~is_duplicate(report_list, r.report_data.url, r.report_data.language)
           THEN Append(report_list, r.report_data)
           ELSE report_list
    /\ run' = [exit_temp_dir(r) EXCEPT
                  !.pc = "done",
                  !.appended = ~is_duplicate(report_list, r.report_data.url,
                                             r.report_data.language)]
    /\ lastReq' = NoRequest
    /\ environ' = environ_after(r)
    /\ UNCHANGED <<variant, short_list_call, matcher_call, resolver_call, current_page, nruns>>

AppResolve(outcomes) ==
    /\ variant = "app"
    /\ run.pc = "resolve"
    /\ \E o \in outcomes : resolve_step(run, o)

AppSecSearch_needs_filings(outcomes) ==
    /\ variant = "app"
    /\ run.pc = "sec_search"
    /\ \E o \in outcomes :
        LET r1 == Called(run, "filing_search", o.kind)
            filings_data == [kind |-> o.kind, filings |-> o.filings]
            r2 == [r1 EXCEPT !.report_data.filings_data = filings_data,
                             !.urls = filing_urls(filings_data)]
        IN  IF o.kind = "raise" \/ o.filings = <<>> THEN Return(r1)
            ELSE Continue(r2, "sec_report")

AppSecSearch(outcomes) ==
    /\ variant = "app"
    /\ run.pc = "sec_search"
    /\ \E o \in outcomes :
        LET r1 == Called(run, "filing_search", o.kind)
            filings_data == [kind |-> o.kind, filings |-> o.filings]
            r2 == [r1 EXCEPT !.report_data.filings_data = filings_data,
                             !.urls = filing_urls(filings_data)]
        IN  IF o.kind = "raise" THEN Return(r1)
            ELSE Continue(r2, "sec_report")

AppSecReport(outcomes) ==
    /\ variant = "app"
    /\ run.pc = "sec_report"
    /\ \E o \in outcomes :
        LET r1 == Synthesize(run, o, PyNone, run.urls)
        IN  IF o = "raise" THEN Return(r1)
            ELSE AppFinish([r1 EXCEPT !.report_data.report = ReportText])

\* ------------------------------------------------- the registry matcher
\* One find_by_corp_name call of the remote registry: it raises, or returns
\* the corporations it found (none: <<>>).
FindRaise == [raises |-> TRUE, corps |-> <<>>]
FindMiss == [raises |-> FALSE, corps |-> <<>>]
FindHit(corps) == [raises |-> FALSE, corps |-> corps]
FindResults == {FindRaise, FindMiss, FindHit(<<"c1">>), FindHit(<<"c1", "cx">>)}

\* The remote registry as one get_dart_company_information call meets it:
\* get_corp_list, the four find_by_corp_name calls (full name exact, full
\* name fuzzy, first name exact, first name fuzzy) and get_corp_info.
MatchRemotes ==
    [corp_list : {"ok", "raise"}, find : [1..4 -> FindResults],
     corp_info : {"ok", "raise"}]

\* dart.api.filings.get_corp_info: the registry record of a corporation
\* ("cx": a record that carries no 'corp_code').
get_corp_info(corp_code) ==
    [corp_code |-> IF corp_code = "cx" THEN Absent ELSE corp_code]

\* try: corp = find(exact); if not corp: corp = find(fuzzy)  except: pass
find_by_corp_name_twice(exact, fuzzy) ==
    IF exact.raises THEN [corp |-> <<>>, swallowed |-> TRUE, made |-> 1]
    ELSE IF exact.corps # <<>> THEN [corp |-> exact.corps, swallowed |-> FALSE, made |-> 1]
    ELSE IF fuzzy.raises THEN [corp |-> <<>>, swallowed |-> TRUE, made |-> 2]
    ELSE [corp |-> fuzzy.corps, swallowed |-> FALSE, made |-> 2]

MatchRaise ==
    [kind |-> "raise", str |-> "", list |-> <<>>, swallowed |-> FALSE, attempts |-> {}]

get_dart_company_information_empty_list(remote) ==
    IF remote.corp_list = "raise" THEN MatchRaise
    ELSE
      LET by_name == find_by_corp_name_twice(remote.find[1], remote.find[2])
          corp == IF by_name.corp = <<>>
                  THEN find_by_corp_name_twice(remote.find[3], remote.find[4]).corp
                  ELSE by_name.corp
      IN  IF corp # <<>> /\ remote.corp_info = "raise" THEN MatchRaise
          ELSE [kind |-> "list", str |-> "",
                list |-> [i \in 1..Len(corp) |-> get_corp_info(corp[i])],
                swallowed |-> FALSE, attempts |-> 1..4]

get_dart_company_information(remote) ==
    IF remote.corp_list = "raise" THEN MatchRaise
    ELSE
      LET by_name == find_by_corp_name_twice(remote.find[1], remote.find[2])
          by_first == IF by_name.corp = <<>>
                      THEN find_by_corp_name_twice(remote.find[3], remote.find[4])
                      ELSE [corp |-> by_name.corp, swallowed |-> FALSE, made |-> 0]
          corp == by_first.corp
          swallowed == by_name.swallowed \/ by_first.swallowed
          attempts == (1..by_name.made) \cup {2 + k : k \in 1..by_first.made}
      IN  IF corp = <<>>
          THEN [kind |-> "str", str |-> NotInDartList, list |-> <<>>,
                swallowed |-> swallowed, attempts |-> attempts]
          ELSE IF remote.corp_info = "raise"
          THEN [MatchRaise EXCEPT !.attempts = attempts]
          ELSE [kind |-> "list", str |-> "",
                list |-> [i \in 1..Len(corp) |-> get_corp_info(corp[i])],
                swallowed |-> swallowed, attempts |-> attempts]

\* What the run records about the matcher: "raise", "list", "not_found", or
\* "lookup_error" when a remote error was swallowed on the way to the
\* not-found answer.
match_outcome(m) ==
    IF m.kind = "str" /\ m.swallowed THEN "lookup_error"
    ELSE IF m.kind = "str" THEN "not_found"
    ELSE m.kind

\* "not in the dart list" in s.lower() / "Error" in s, for the strings a
\* matcher returns.
says_not_in_dart_list(s) == s = NotInDartList
says_error(s) == s = ErrorLoadingList

\* The branch generate_report_flow takes on corp_short_list_data.
short_list_branch(data) ==
    IF data.kind = "str" /\ says_not_in_dart_list(data.str) THEN "not in dart list"
    ELSE IF data.kind = "str" /\ says_error(data.str) THEN "error in dart lookup"
    ELSE IF (data.kind = "str" /\ data.str = "") \/ (data.kind = "list" /\ data.list = <<>>)
    THEN "not in short dart list"
    ELSE "found"

\* ------------------------------------------------- the identifier selector
\* generate_corp_code returns the model's text (or None), or raises.
Raised == "<raise>"
SelectorOutcomes == {Raised, PyNone, "N/A", "0", "1", "7", "-1", "-3", "abc"}

IntStrings == {"0", "1", "7", "-1", "-3"}

\* int(s) for the strings above; ValueError for any other text.
int(s) ==
    CASE s = "0" -> 0
      [] s = "1" -> 1
      [] s = "7" -> 7
      [] s = "-1" -> 0 - 1
      [] s = "-3" -> 0 - 3

\* record.get('corp_code', 'N/A')
get_corp_code(record) ==
    IF record.corp_code = Absent THEN "N/A" ELSE record.corp_code

\* --------------------------------------------------- the document fetcher
\* The remote registry as one dart_search call meets it: get_corp_list,
\* find_by_corp_code (known), extract_fs and the statements it extracts
\* ("df": a DataFrame, "other": anything else).
FetchRemotes ==
    [corp_list : {"ok", "raise"}, known : BOOLEAN, extract_fs : {"ok", "raise"},
     fs_results : {<<>>, <<"df">>, <<"df", "df">>, <<"other">>}]

\* os.path.join(temp_dir, f"{corp_code}_my_docs")
folder_name(corp_code) == "temp_dir/" \o corp_code \o "_my_docs"

\* dart_search up to its `await asyncio.gather(*save_tasks)`: it has raised,
\* returned None, or dispatched one save task per DataFrame of fs_results
\* (task i writes dataframe_{i}.txt).
dart_search(corp_code, remote) ==
    IF remote.corp_list = "raise"
    THEN [kind |-> "raise", case |-> "corp_list_raise", save_tasks |-> {}]
    ELSE IF ~remote.known
    THEN [kind |-> "none", case |-> "unknown", save_tasks |-> {}]
    ELSE IF remote.extract_fs = "raise"
    THEN [kind |-> "none", case |-> "extract_raise", save_tasks |-> {}]
    ELSE IF remote.fs_results = <<>>
    THEN [kind |-> "none", case |-> "no_statements", save_tasks |-> {}]
    ELSE [kind |-> "gather", case |-> "statements",
          save_tasks |-> {i - 1 : i \in {j \in 1..Len(remote.fs_results) :
                                             remote.fs_results[j] = "df"}}]

\* The flow enters the with-block and calls dart_search.
fetch_called(r, f, remote) ==
    [r EXCEPT !.calls["fetcher"] = @ + 1,
              !.temp_dir = "exists",
              !.fetch_case = f.case,
              !.fs_results = IF f.kind = "gather" THEN remote.fs_results ELSE <<>>,
              !.pending = f.save_tasks]

fetch_returned(r, outcome) == [r EXCEPT !.out["fetcher"] = outcome]

SaveOutcomes == {"ok", "raise"}

\* One save task (_save_dataframe_to_csv_sync in its thread) finishes: the
\* file is written, or to_csv raises and gather passes the exception on.
DartSave(outcomes) ==
    /\ run.pc = "saving"
    /\ \E i \in run.pending, o \in outcomes :
        Continue([run EXCEPT !.pending = @ \ {i},
                             !.saved = IF o = "ok" THEN @ \cup {i} ELSE @,
                             !.gather_failed = @ \/ o = "raise"],
                 "saving")

gather_never_returns(r) == FALSE

gather_no_wait(r) == TRUE

\* asyncio.gather(*save_tasks) returns when every task has finished, or
\* raises as soon as one task has raised.
gather_done(r) == r.gather_failed \/ r.pending = {}

report_source_always_hybrid(doc_path) == "hybrid"

\* report_source = 'web' if not doc_path, else 'hybrid'.
report_source_of(doc_path) == IF doc_path = PyNone THEN "web" ELSE "hybrid"

\* ------------------------------- app.py: generate_report_flow, DART branch
\* Lines 449-507: what follows the matcher / selector decisions, up to the
\* next awaited call.
app_after_selection(r) ==
    IF r.use_web_search
    THEN Continue([r EXCEPT !.report_data.report_source = "web",
                            !.report_data.web_search_reason = r.web_search_reason],
                  "dart_web")
    ELSE IF r.corp_code_value # "N/A" THEN Continue(r, "fetch")
    ELSE AppFinish([r EXCEPT !.report_data.report = NoCorpCodeReport])

AppMatch(remotes) ==
    /\ variant = "app"
    /\ run.pc = "match"
    /\ \E remote \in remotes :
        LET m == get_dart_company_information(remote)
            r1 == Called(run, "matcher", match_outcome(m))
            data == [kind |-> m.kind, str |-> m.str, list |-> m.list]
            r2 == [r1 EXCEPT !.report_data.corp_short_list_data = data]
            branch == short_list_branch(data)
        IN  IF m.kind = "raise" THEN Return(r1)
            ELSE IF branch = "found" THEN Continue(r2, "select")
            ELSE app_after_selection([r2 EXCEPT !.use_web_search = TRUE,
                                                !.web_search_reason = branch])

\* Lines 414-440: the validation of the selector's answer.
app_select(r, selected_corp_index_str) ==
    LET corp_short_list_data == r.report_data.corp_short_list_data.list
    IN  IF selected_corp_index_str # "N/A" /\ selected_corp_index_str # PyNone
        THEN IF selected_corp_index_str \in IntStrings
             THEN LET selected_index == int(selected_corp_index_str)
                  IN  IF 0 <= selected_index /\ selected_index < Len(corp_short_list_data)
                      THEN LET record == corp_short_list_data[selected_index + 1]
                           IN  [r EXCEPT !.report_data.corp_code_data = <<record>>,
                                         !.corp_code_value = get_corp_code(record)]
                      ELSE [r EXCEPT !.use_web_search = TRUE,
                                     !.web_search_reason =
                                         "corp code generation failed - invalid index"]
             ELSE [r EXCEPT !.use_web_search = TRUE,
                            !.web_search_reason =
                                "corp code generation failed - non-integer index"]
        ELSE [r EXCEPT !.use_web_search = TRUE,
                       !.web_search_reason = "corp code generation failed - N/A"]

AppSelect(outcomes) ==
    /\ variant = "app"
    /\ run.pc = "select"
    /\ \E o \in outcomes :
        LET r1 == Called(run, "selector", o)
        IN  IF o = Raised THEN Return(r1)
            ELSE app_after_selection(app_select(r1, o))

\* Lines 468-487: the fetch inside a fresh TemporaryDirectory.
AppFetch(remotes) ==
    /\ variant = "app"
    /\ run.pc = "fetch"
    /\ \E remote \in remotes :
        LET f == dart_search(run.corp_code_value, remote)
            r1 == fetch_called(run, f, remote)
        IN  IF f.kind = "raise" THEN Return(fetch_returned(r1, "raise"))
            ELSE IF f.kind = "none"
            THEN Continue([fetch_returned(r1, "none") EXCEPT
                              !.report_data.report_source = report_source_of(PyNone)],
                          "dart_fallback")
            ELSE Continue(r1, "saving")

\* dart_search returns folder_name (lines 471-486), or its gather raised
\* (handler at 500-504).
AppFetchReturn ==
    /\ variant = "app"
    /\ run.pc = "saving"
    /\ gather_done(run)
    /\ IF run.gather_failed THEN Return(fetch_returned(run, "raise"))
       ELSE LET doc_path == folder_name(run.corp_code_value)
            IN  Continue([fetch_returned(run, "path") EXCEPT
                             !.doc_path = doc_path,
                             !.report_data.report_source = report_source_of(doc_path)],
                         "dart_hybrid")

AppDartReport_retry_on_web(outcomes) ==
    /\ variant = "app"
    /\ run.pc \in {"dart_web", "dart_fallback", "dart_hybrid"}
    /\ \E o \in outcomes :
        LET path == IF run.pc = "dart_hybrid" THEN run.doc_path ELSE PyNone
            r1 == Synthesize(run, o, path, <<>>)
        IN  IF o = "raise"
            THEN IF run.pc = "dart_hybrid" THEN Continue(r1, "dart_fallback")
                 ELSE Return(r1)
            ELSE AppFinish([r1 EXCEPT !.report_data.report = ReportText])

\* The three dart_get_report calls (lines 455, 479, 493); each handler of a
\* raised exception returns before the report is set.
AppDartReport(outcomes) ==
    /\ variant = "app"
    /\ run.pc \in {"dart_web", "dart_fallback", "dart_hybrid"}
    /\ \E o \in outcomes :
        LET path == IF run.pc = "dart_hybrid" THEN run.doc_path ELSE PyNone
            r1 == Synthesize(run, o, path, <<>>)
        IN  IF o = "raise" THEN Return(r1)
            ELSE AppFinish([r1 EXCEPT !.report_data.report = ReportText])

\* -------------------------------- streamlit_app.py: generate_report_flow
\* Lines 669-671: the report is displayed and appended, whatever happened.
StreamlitFinish(r) ==
    /\ report_to_display' = <<r.report_data>>
    /\ report_list' = Append(report_list, r.report_data)
    /\ run' = [exit_temp_dir(r) EXCEPT !.pc = "done", !.appended = TRUE]
    /\ lastReq' = NoRequest
    /\ environ' = environ_after(r)
    /\ UNCHANGED <<variant, short_list_call, matcher_call, resolver_call, current_page, nruns>>

StreamlitResolve(outcomes) ==
    /\ variant = "streamlit"
    /\ run.pc = "resolve"
    /\ \E o \in outcomes : resolve_step(run, o)

StreamlitSecSearch(outcomes) ==
    /\ variant = "streamlit"
    /\ run.pc = "sec_search"
    /\ \E o \in outcomes :
        LET r1 == Called(run, "filing_search", o.kind)
            filings_data == [kind |-> o.kind, filings |-> o.filings]
            r2 == [r1 EXCEPT !.report_data.filings_data = filings_data,
                             !.urls = filing_urls(filings_data)]
        IN  IF o.kind = "raise" THEN StreamlitFinish(r1)
            ELSE Continue(r2, "sec_report")

StreamlitSecReport(outcomes) ==
    /\ variant = "streamlit"
    /\ run.pc = "sec_report"
    /\ \E o \in outcomes :
        LET r1 == Synthesize(run, o, PyNone, run.urls)
        IN  IF o = "raise"
            THEN StreamlitFinish([r1 EXCEPT !.report_data.report = ErrorGeneratingReport])
            ELSE StreamlitFinish([r1 EXCEPT !.report_data.report = ReportText])

\* Lines 599-602: the web-search branch records its source and reason.
streamlit_use_web_search(r, reason) ==
    Continue([r EXCEPT !.use_web_search = TRUE,
                       !.web_search_reason = reason,
                       !.report_data.report_source = "web",
                       !.report_data.web_search_reason = reason],
             "dart_web")

StreamlitMatch(remotes) ==
    /\ variant = "streamlit"
    /\ run.pc = "match"
    /\ \E remote \in remotes :
        LET m == get_dart_company_information(remote)
            r1 == Called(run, "matcher", match_outcome(m))
            data == [kind |-> m.kind, str |-> m.str, list |-> m.list]
            r2 == [r1 EXCEPT !.report_data.corp_short_list_data = data]
            branch == short_list_branch(data)
        IN  IF m.kind = "raise" THEN StreamlitFinish(r1)
            ELSE IF branch = "found" THEN Continue(r2, "select")
            ELSE streamlit_use_web_search(r2, branch)

\* corp_short_list_data[int(corp_code_data)]: Python indexing, where a
\* negative index counts from the end; "IndexError" outside -n..n-1.
python_index(list, index) ==
    IF 0 <= index /\ index < Len(list) THEN <<list[index + 1]>>
    ELSE IF 0 - Len(list) <= index /\ index < 0 THEN <<list[Len(list) + index + 1]>>
    ELSE <<>>

\* Lines 565-597.  An exception (int() of a non-number or of None, an index
\* out of range, a record without 'corp_code') leaves the branch for the
\* handler at line 665, after which the flow goes on to its append.
StreamlitSelect(outcomes) ==
    /\ variant = "streamlit"
    /\ run.pc = "select"
    /\ \E corp_code_data \in outcomes :
        LET r1 == Called(run, "selector", corp_code_data)
            corp_short_list_data == run.report_data.corp_short_list_data.list
        IN  IF corp_code_data = Raised THEN StreamlitFinish(r1)
            ELSE IF corp_code_data = "N/A"
            THEN streamlit_use_web_search(r1, "corp code generation failed")
            ELSE IF corp_code_data \notin IntStrings THEN StreamlitFinish(r1)
            ELSE LET picked == python_index(corp_short_list_data, int(corp_code_data))
                 IN  IF picked = <<>> THEN StreamlitFinish(r1)
                     ELSE LET r2 == [r1 EXCEPT !.report_data.corp_code_data = picked]
                          IN  IF picked[1].corp_code = Absent THEN StreamlitFinish(r2)
                              ELSE Continue([r2 EXCEPT !.corp_code_value =
                                                           picked[1].corp_code],
                                            "fetch")

\* Lines 625-640 and the handler at 661.
StreamlitFetch(remotes) ==
    /\ variant = "streamlit"
    /\ run.pc = "fetch"
    /\ \E remote \in remotes :
        LET f == dart_search(run.corp_code_value, remote)
            r1 == fetch_called(run, f, remote)
        IN  IF f.kind = "raise" THEN StreamlitFinish(fetch_returned(r1, "raise"))
            ELSE IF f.kind = "none"
            THEN Continue([fetch_returned(r1, "none") EXCEPT
                              !.report_data.report_source = report_source_of(PyNone)],
                          "dart_fallback")
            ELSE Continue(r1, "saving")

StreamlitFetchReturn ==
    /\ variant = "streamlit"
    /\ run.pc = "saving"
    /\ gather_done(run)
    /\ IF run.gather_failed THEN StreamlitFinish(fetch_returned(run, "raise"))
       ELSE LET doc_path == folder_name(run.corp_code_value)
            IN  Continue([fetch_returned(run, "path") EXCEPT
                             !.doc_path = doc_path,
                             !.report_data.report_source = report_source_of(doc_path)],
                         "dart_hybrid")

\* Lines 606-611 and 644-649 call dart_get_report(..., corp_data=...), a
\* keyword dart_get_report (prom_functions.py:562) does not take: the call
\* raises TypeError before the synthesizer starts, and the handlers at 616
\* and 654 put the error message in the report.
StreamlitDartReport ==
    /\ variant = "streamlit"
    /\ run.pc \in {"dart_web", "dart_fallback", "dart_hybrid"}
    /\ LET path == IF run.pc = "dart_hybrid" THEN run.doc_path ELSE PyNone
           r1 == Synthesize(run, TypeErrorRaised, path, <<>>)
       IN  StreamlitFinish([r1 EXCEPT !.report_data.report = ErrorGeneratingReport])

\* ------------------------------------------------------- specifications
\* Every stage outcome, RunBudget runs per session.
\* ------------------------------------------------------- display_report
\* The st.error / st.warning / st.info / st.success lines display_report
\* writes for a report (app.py:147-268; streamlit_app.py:244-406 differs
\* at the two places marked).
Msg ==
    [FailedToExtract |-> "Failed to extract company information",
     NoCompanyName |-> "Company name could not be determined. Cannot proceed.",
     NoSecFilings |-> "No SEC filings found or error in fetching.",
     FoundSecFilings |-> "Found SEC filings.",
     NoSecUrls |-> "No URLs found in SEC filings to generate report from.",
     SecReportGenerated |-> "SEC report generated successfully!",
     NotInDartList |-> "Company not in DART list. Report generated using web search.",
     NotInShortList |-> "Company in DART list but not found in short DART list. Report generated using web search.",
     LookupError |-> "Error in DART lookup. Report generated using web search.",
     CorpCodeFailed |-> "DART corporation code generation failed. Report generated using web search.",
     NotFoundInDartList |-> "Company not found in DART list. Report generated using web search.",
     FoundInShortList |-> "Company found in DART short list.",
     CorpCodeGenerated |-> "DART Corporation code generated.",
     WebSearch |-> "Report generated using web search.",
     DartSuccess |-> "Success! Report generated using DART filings!"]

\* Python truth of report_data.get('corp_short_list_data', {}).
truthy_short_list(data) ==
    \/ data.kind = "str" /\ data.str # ""
    \/ data.kind = "list" /\ data.list # <<>>

display_report(report_data, script) ==
    LET company_data == report_data.company_data
        corp_short_list_data == report_data.corp_short_list_data
        corp_code_data == report_data.corp_code_data
        report_source == IF report_data.report_source = Absent THEN "web"
                         ELSE report_data.report_source
        web_search_reason == IF report_data.web_search_reason = Absent THEN ""
                             ELSE report_data.web_search_reason
        \* .get('corp_code') != 'N/A' holds for every record of the model
        \* (a missing key gives None); app.py tests isinstance(dict), which
        \* the default {} passes, streamlit_app.py tests truth, which it fails.
        code_generated == IF script = "app" THEN TRUE ELSE corp_code_data # <<>>
    IN  IF company_data.kind # "dict" THEN {Msg.FailedToExtract}
        ELSE IF get_company_name(company_data) = "N/A" THEN {Msg.NoCompanyName}
        ELSE IF report_data.language = "english"
        THEN IF report_data.filings_data.kind # "dict" \/ report_data.filings_data.filings = <<>>
             THEN {Msg.NoSecFilings}
             ELSE IF filing_urls(report_data.filings_data) = <<>>
                  THEN {Msg.FoundSecFilings, Msg.NoSecUrls}
                  ELSE {Msg.FoundSecFilings, Msg.SecReportGenerated}
        ELSE (IF corp_short_list_data.kind = "str" /\ says_not_in_dart_list(corp_short_list_data.str)
              THEN {Msg.NotInDartList}
              ELSE IF web_search_reason = "not in short dart list" THEN {Msg.NotInShortList}
              ELSE IF web_search_reason = "error in dart lookup" THEN {Msg.LookupError}
              ELSE IF web_search_reason = "corp code generation failed" THEN {Msg.CorpCodeFailed}
              ELSE IF ~truthy_short_list(corp_short_list_data)
              THEN (IF script = "app" /\ report_source # "web" THEN {}
                    ELSE {Msg.NotFoundInDartList})
              ELSE {Msg.FoundInShortList}
                       \cup (IF code_generated THEN {Msg.CorpCodeGenerated} ELSE {}))
             \cup (IF report_source = "web" THEN {Msg.WebSearch} ELSE {Msg.DartSuccess})

Next ==
    \/ AppGenerate(RunBudget, Urls)
    \/ StreamlitGenerate(RunBudget, Urls)
    \/ ViewReport
    \/ ClearDisplay
    \/ AppRemove
    \/ StreamlitRemove
    \/ AppNavigate
    \/ AppResolve(ResolverOutcomes)
    \/ AppSecSearch(SecSearchOutcomes)
    \/ AppSecReport(SynthOutcomes)
    \/ AppMatch(MatchRemotes)
    \/ AppSelect(SelectorOutcomes)
    \/ AppFetch(FetchRemotes)
    \/ DartSave(SaveOutcomes)
    \/ AppFetchReturn
    \/ AppDartReport(SynthOutcomes)
    \/ StreamlitResolve(ResolverOutcomes)
    \/ StreamlitSecSearch(SecSearchOutcomes)
    \/ StreamlitSecReport(SynthOutcomes)
    \/ StreamlitMatch(MatchRemotes)
    \/ StreamlitSelect(SelectorOutcomes)
    \/ StreamlitFetch(FetchRemotes)
    \/ StreamlitFetchReturn
    \/ StreamlitDartReport

Spec == Init /\ [][Next]_vars

\* The steps of the flow itself, as opposed to the user's widget events:
\* asyncio.run(generate_report_flow(...)) drives the coroutine to its end,
\* and every awaited stage or save task returns or raises.
FlowStep ==
    \/ AppResolve(ResolverOutcomes)
    \/ AppSecSearch(SecSearchOutcomes)
    \/ AppSecReport(SynthOutcomes)
    \/ AppMatch(MatchRemotes)
    \/ AppSelect(SelectorOutcomes)
    \/ AppFetch(FetchRemotes)
    \/ DartSave(SaveOutcomes)
    \/ AppFetchReturn
    \/ AppDartReport(SynthOutcomes)
    \/ StreamlitResolve(ResolverOutcomes)
    \/ StreamlitSecSearch(SecSearchOutcomes)
    \/ StreamlitSecReport(SynthOutcomes)
    \/ StreamlitMatch(MatchRemotes)
    \/ StreamlitSelect(SelectorOutcomes)
    \/ StreamlitFetch(FetchRemotes)
    \/ StreamlitFetchReturn
    \/ StreamlitDartReport

\* The program under the assumption that every external call eventually
\* returns or raises: a flow that can take a step eventually takes one.
\* Widget events stay unconstrained.
FairSpec == Init /\ [][Next]_vars /\ WF_vars(FlowStep)

\* The short outcome lists of the session specification.
SessionResolverOutcomes == {"ok", "none"}
SessionSecSearchOutcomes == {SecDict(<<"f1">>)}
SessionMatchRemotes ==
    {[corp_list |-> "ok", find |-> [i \in 1..4 |-> FindMiss], corp_info |-> "ok"],
     [corp_list |-> "ok", find |-> [i \in 1..4 |-> FindHit(<<"c1">>)],
      corp_info |-> "ok"]}
SessionSelectorOutcomes == {"0", "N/A"}
SessionFetchRemotes ==
    {[corp_list |-> "ok", known |-> TRUE, extract_fs |-> "ok", fs_results |-> <<"df">>]}
SessionSynthOutcomes == {"ok", "raise"}
SessionSaveOutcomes == {"ok"}

\* Sessions of up to SessionBudget runs.
SessionNext ==
    \/ AppGenerate(SessionBudget, SessionUrls)
    \/ StreamlitGenerate(SessionBudget, SessionUrls)
    \/ ViewReport
    \/ ClearDisplay
    \/ AppRemove
    \/ StreamlitRemove
    \/ AppNavigate
    \/ AppResolve(SessionResolverOutcomes)
    \/ AppSecSearch(SessionSecSearchOutcomes)
    \/ AppSecReport(SessionSynthOutcomes)
    \/ AppMatch(SessionMatchRemotes)
    \/ AppSelect(SessionSelectorOutcomes)
    \/ AppFetch(SessionFetchRemotes)
    \/ DartSave(SessionSaveOutcomes)
    \/ AppFetchReturn
    \/ AppDartReport(SessionSynthOutcomes)
    \/ StreamlitResolve(SessionResolverOutcomes)
    \/ StreamlitSecSearch(SessionSecSearchOutcomes)
    \/ StreamlitSecReport(SessionSynthOutcomes)
    \/ StreamlitMatch(SessionMatchRemotes)
    \/ StreamlitSelect(SessionSelectorOutcomes)
    \/ StreamlitFetch(SessionFetchRemotes)
    \/ StreamlitFetchReturn
    \/ StreamlitDartReport

SessionSpec == Init /\ [][SessionNext]_vars

\* ------------------------------------------------------------ short_list
\* str(corp) of a snapshot record, and the names searched for, as character
\* sequences.
RecordTexts == {<<"a">>, <<"a", "b">>, <<"b", "a">>, <<"b", "b">>}
NameTexts == {<<>>, <<"a">>, <<"b">>, <<"a", "b">>}

Snapshots == UNION {[1..n -> RecordTexts] : n \in 0..MaxSnapshot}

\* Python's `needle in hay` on strings.
str_in(needle, hay) ==
    \E i \in 0..(Len(hay) - Len(needle)) :
        SubSeq(hay, i + 1, i + Len(needle)) = needle

\* for corp in lis: if name in str(corp): short_lists.append(corp)
RECURSIVE append_matches(_, _, _)
append_matches(short_lists, lis, name) ==
    IF lis = <<>> THEN short_lists
    ELSE append_matches(IF str_in(name, Head(lis))
                        THEN Append(short_lists, Head(lis)) ELSE short_lists,
                        Tail(lis), name)

short_list_both_names(loadable, lis, company_name, company_first_name) ==
    IF ~loadable THEN [kind |-> "str", str |-> ErrorLoadingList, list |-> <<>>]
    ELSE LET short_lists == append_matches(append_matches(<<>>, lis, company_name),
                                           lis, company_first_name)
         IN  IF Len(short_lists) = 0
             THEN [kind |-> "str", str |-> NotInDartList, list |-> <<>>]
             ELSE [kind |-> "list", str |-> "", list |-> short_lists]

short_list(loadable, lis, company_name, company_first_name) ==
    IF ~loadable THEN [kind |-> "str", str |-> ErrorLoadingList, list |-> <<>>]
    ELSE LET by_name == append_matches(<<>>, lis, company_name)
             short_lists == IF Len(by_name) = 0
                            THEN append_matches(by_name, lis, company_first_name)
                            ELSE by_name
         IN  IF Len(short_lists) = 0
             THEN [kind |-> "str", str |-> NotInDartList, list |-> <<>>]
             ELSE [kind |-> "list", str |-> "", list |-> short_lists]

ShortListInit ==
    /\ variant = "app"
    /\ current_page = PAGE_REPORT_GENERATOR
    /\ report_list = <<>>
    /\ report_to_display = <<>>
    /\ run = IdleRun
    /\ nruns = 0
    /\ lastReq = NoRequest
    /\ matcher_call = NoMatcherCall
    /\ resolver_call = NoResolverCall
    /\ environ = NoEnviron
    /\ \E loadable \in BOOLEAN, lis \in Snapshots,
          company_name \in NameTexts, company_first_name \in NameTexts :
          short_list_call =
              [loadable |-> loadable, lis |-> lis, company_name |-> company_name,
               company_first_name |-> company_first_name,
               result |-> [kind |-> "-", str |-> "", list |-> <<>>],
               returned |-> FALSE]

ShortListReturn ==
    /\ ~short_list_call.returned
    /\ short_list_call' =
           [short_list_call EXCEPT
               !.result = short_list(short_list_call.loadable, short_list_call.lis,
                                     short_list_call.company_name,
                                     short_list_call.company_first_name),
               !.returned = TRUE]
    /\ UNCHANGED <<variant, current_page, report_list, report_to_display, run,
                   nruns, lastReq, matcher_call, resolver_call, environ>>

ShortListNext == ShortListReturn

ShortListSpec == ShortListInit /\ [][ShortListNext]_vars

\* ------------------------------ get_dart_company_information on its own
\* One call of get_dart_company_information against each behaviour of the
\* remote registry; result.attempts are the find_by_corp_name calls made
\* (1: full name exact, 2: full name fuzzy, 3: first name exact, 4: first
\* name fuzzy).
MatcherInit ==
    /\ variant = "app"
    /\ current_page = PAGE_REPORT_GENERATOR
    /\ report_list = <<>>
    /\ report_to_display = <<>>
    /\ run = IdleRun
    /\ nruns = 0
    /\ lastReq = NoRequest
    /\ short_list_call = NoShortListCall
    /\ resolver_call = NoResolverCall
    /\ environ = NoEnviron
    /\ \E remote \in MatchRemotes :
          matcher_call = [remote |-> remote, result |-> "-", returned |-> FALSE]

MatcherReturn ==
    /\ ~matcher_call.returned
    /\ matcher_call' =
           [matcher_call EXCEPT
               !.result = get_dart_company_information(matcher_call.remote),
               !.returned = TRUE]
    /\ UNCHANGED <<variant, current_page, report_list, report_to_display, run,
                   nruns, lastReq, short_list_call, resolver_call, environ>>

MatcherNext == MatcherReturn

MatcherSpec == MatcherInit /\ [][MatcherNext]_vars

\* -------------------------------- generate_company_information on its own
\* Texts a model response can carry as content or as tool-call arguments,
\* and what json.loads makes of them.
ValidJson == "{\"company_name\": \"Acme\"}"
InvalidJson == "Acme is a company"
QueryArgs == "{\"query\": \"acme.com\"}"
PromptArgs == "{\"prompt\": \"acme.com\"}"
EmptyArgs == "{}"
JsonObjects == {ValidJson, QueryArgs, PromptArgs, EmptyArgs}

\* json.loads(text): the parsed object, JSONDecodeError for a text that is
\* not JSON (the empty text included), TypeError for None.
json_loads(text) ==
    IF text = PyNone THEN [kind |-> "TypeError", text |-> text]
    ELSE IF text \in JsonObjects THEN [kind |-> "object", text |-> text]
    ELSE [kind |-> "JSONDecodeError", text |-> text]

\* arguments.get("query", arguments.get("prompt")) of a parsed object.
get_query(arguments) ==
    IF arguments.text = QueryArgs \/ arguments.text = PromptArgs THEN "acme.com"
    ELSE PyNone

ToolNames == {"tavily_web_search", "get_stock_price"}
ToolArguments == {QueryArgs, PromptArgs, EmptyArgs, InvalidJson}
ToolCalls == [name : ToolNames, arguments : ToolArguments]
ToolCallLists == UNION {[1..n -> ToolCalls] : n \in 0..MaxToolCalls}

\* The first response (message.content, message.tool_calls) and the content
\* of the follow-up response.
FirstResponses == [content : {PyNone, "", ValidJson, InvalidJson}, tool_calls : ToolCallLists]
FollowupContents == {PyNone, ValidJson, InvalidJson}

\* The parameters of `async def tavily_web_search(url, num_results=5)`.
tavily_web_search_parameters == {"url", "num_results"}

\* A call tavily_web_search(**keywords): Python raises TypeError for a
\* keyword that is no parameter; a call that binds goes on to
\* `"results" in response` with response the coroutine client.extract()
\* returned and nobody awaited, which raises TypeError as well.
tavily_web_search(keywords) ==
    IF ~(keywords \subseteq tavily_web_search_parameters)
    THEN [kind |-> "error", text |-> "Error calling tavily_web_search: unexpected keyword argument"]
    ELSE [kind |-> "error", text |-> "Error calling tavily_web_search: argument of type 'coroutine' is not iterable"]

\* The tool message appended for tool call i (lines 204-241).
tool_message(tool_calls, i) ==
    LET tool_call == tool_calls[i]
        arguments == json_loads(tool_call.arguments)
        tool_output ==
            IF arguments.kind = "JSONDecodeError"
            THEN [kind |-> "error", text |-> "Invalid arguments received."]
            ELSE IF tool_call.name = "tavily_web_search"
            THEN IF get_query(arguments) # PyNone
                 THEN tavily_web_search({"query"})
                 ELSE [kind |-> "error", text |-> "Missing 'query' argument"]
            ELSE [kind |-> "error", text |-> "Unknown tool"]
    IN  [role |-> "tool", tool_call_id |-> i, name |-> tool_call.name,
         content |-> tool_output]

\* What the function hands back: the parsed object, an error dictionary, or
\* an exception.
parsed_result(content) == [kind |-> "parsed", error |-> Absent, raw_content |-> Absent, content |-> content]
error_result(error, raw_content) == [kind |-> "error", error |-> error, raw_content |-> raw_content, content |-> Absent]
raise_result(exception) == [kind |-> "raise", error |-> exception, raw_content |-> Absent, content |-> Absent]

\* generate_company_information for a first response and the content of
\* the follow-up response (read only if a follow-up call is made):
\* the value, the number of chat.completions.create calls, and the tool
\* messages put in messages_history.
generate_company_information(first, followup) ==
    IF first.tool_calls # <<>>
    THEN LET messages == [i \in 1..Len(first.tool_calls) |-> tool_message(first.tool_calls, i)]
             content == json_loads(followup)
         IN  [model_calls |-> 2, messages |-> messages,
              value |-> IF content.kind = "object" THEN parsed_result(followup)
                        ELSE IF content.kind = "JSONDecodeError"
                        THEN error_result("Failed to parse JSON response from LLM after tool use.", followup)
                        ELSE raise_result(content.kind)]
    ELSE IF first.content # PyNone /\ first.content # ""
    THEN LET content == json_loads(first.content)
         IN  [model_calls |-> 1, messages |-> <<>>,
              value |-> IF content.kind = "object" THEN parsed_result(first.content)
                        ELSE error_result("Failed to parse initial JSON response from LLM.", first.content)]
    ELSE [model_calls |-> 1, messages |-> <<>>,
          value |-> error_result("No content or tool call from LLM.", Absent)]

ResolverInit ==
    /\ variant = "app"
    /\ current_page = PAGE_REPORT_GENERATOR
    /\ report_list = <<>>
    /\ report_to_display = <<>>
    /\ run = IdleRun
    /\ nruns = 0
    /\ lastReq = NoRequest
    /\ short_list_call = NoShortListCall
    /\ matcher_call = NoMatcherCall
    /\ environ = NoEnviron
    /\ \E first \in FirstResponses, followup \in FollowupContents :
          resolver_call = [first |-> first, followup |-> followup, result |-> "-",
                           returned |-> FALSE]

ResolverReturn ==
    /\ ~resolver_call.returned
    /\ resolver_call' =
           [resolver_call EXCEPT
               !.result = generate_company_information(resolver_call.first,
                                                       resolver_call.followup),
               !.returned = TRUE]
    /\ UNCHANGED <<variant, current_page, report_list, report_to_display, run,
                   nruns, lastReq, short_list_call, matcher_call, environ>>

ResolverNext == ResolverReturn

ResolverSpec == ResolverInit /\ [][ResolverNext]_vars

\* ------------------------------------------------------------- claims
KeyListed(url, language) ==
    \E i \in 1..Len(report_list) :
        report_list[i].url = url /\ report_list[i].language = language

\* The step is a generate request for a key: it starts a run exactly when the
\* key is not listed; a request for a listed key changes neither the list
\* nor any stage's call count and leaves no run in progress.
RequestIsIdempotent ==
    (lastReq'.made /\ lastReq'.url # "") =>
        LET listed == KeyListed(lastReq'.url, lastReq'.language)
        IN  /\ (run' = NewRun(lastReq'.url, lastReq'.language)) <=> ~listed
            /\ listed => /\ report_list' = report_list
                         /\ run'.calls = run.calls
                         /\ ~Running(run')

ListedReportOf(url, language, shown) ==
    /\ shown # <<>>
    /\ shown[1].url = url /\ shown[1].language = language
    /\ \E i \in 1..Len(report_list) : report_list[i] = shown[1]

\* C1 as stated: a generate request runs the pipeline iff its key is not in
\* report_list; a request for a listed key selects the listed report for
\* display, calls no stage and leaves report_list unchanged.
C1_Original ==
    [][/\ RequestIsIdempotent
       /\ (lastReq'.made /\ lastReq'.url # ""
              /\ KeyListed(lastReq'.url, lastReq'.language))
           => ListedReportOf(lastReq'.url, lastReq'.language, report_to_display')]_vars

\* What both scripts do keep of C1: a generate request runs the pipeline iff
\* its key is not in report_list, and a request for a listed key calls no
\* stage and leaves report_list unchanged; app.py then selects the listed
\* report for display, streamlit_app.py leaves the displayed report as it was.
C1_Idempotence ==
    [][/\ RequestIsIdempotent
       /\ (lastReq'.made /\ lastReq'.url # ""
              /\ KeyListed(lastReq'.url, lastReq'.language))
           => IF variant = "app"
              THEN ListedReportOf(lastReq'.url, lastReq'.language, report_to_display')
              ELSE report_to_display' = report_to_display]_vars

\* A second request for the key of a completed run has just been answered
\* from the list.
C1_Witness ==
    /\ lastReq.made /\ lastReq.dup
    /\ run.pc = "done"
    /\ run.report_data.url = lastReq.url
    /\ run.report_data.language = lastReq.language
    /\ KeyListed(lastReq.url, lastReq.language)
    /\ run.calls["resolver"] = 1

\* C6: no two reports of report_list have the same url and the same language.
\* (generate_report_flow_async, app.py:892, appends without a check but is
\* never called.)
C6_UniqueKeys ==
    \A i, j \in 1..Len(report_list) :
        (report_list[i].url = report_list[j].url
            /\ report_list[i].language = report_list[j].language) => i = j

\* Two reports of one url are listed and a request for a listed key has just
\* been refused a run.
C6_Witness ==
    /\ Len(report_list) >= 2
    /\ report_list[1].url = report_list[2].url
    /\ lastReq.made /\ lastReq.dup

\* C7 as stated: a generate request for a key whose run is still in progress
\* starts no second run.
C7_NoSecondRun ==
    ~(lastReq.made /\ lastReq.busy_same /\ lastReq.started)

LaterStages == Stages \ {"resolver"}

\* The run ended at identity resolution: no later stage was called and no
\* report of the run's key is listed.
EndedAtResolver ==
    /\ run.pc = "aborted"
    /\ \A s \in LaterStages : run.calls[s] = 0
    /\ ~run.appended
    /\ ~KeyListed(run.report_data.url, run.report_data.language)

\* C8: when the resolver yields nothing, an error value, or an identity
\* without a company name, the run ends there: no search, matcher, selector,
\* fetcher or synthesizer call, and no report appended.
C8_IdentityFailureAborts ==
    run.out["resolver"] \in {"none", "error", "noname"} => EndedAtResolver

\* The resolver returned an identity without a company name.
C8_Witness ==
    /\ run.out["resolver"] = "noname"
    /\ run.calls["resolver"] = 1
    /\ run.pc = "aborted"

\* C9 as stated: an identity whose company name is "unknown" ends the run like
\* a missing identity.
C9_Original ==
    run.out["resolver"] = "unknown" => EndedAtResolver

\* C9 as amended: the sentinel is 'N/A': an identity whose company name is
\* 'N/A' ends the run like a missing identity, with no later stage call and
\* no report appended.
C9_SentinelAborts ==
    run.out["resolver"] = "na" => EndedAtResolver

\* The resolver returned an identity named 'N/A'.
C9_Witness ==
    /\ run.out["resolver"] = "na"
    /\ run.calls["resolver"] = 1
    /\ run.report_data.company_data.company_name = "N/A"
    /\ run.pc = "aborted"

Ended(r) == r.pc \in {"done", "aborted"}

Candidates(r) == r.report_data.corp_short_list_data.list

\* The selector answered an integer outside 0..n-1 or a text that is neither
\* an integer nor 'N/A', for a non-empty candidate list.
InvalidSelection(r) ==
    /\ r.calls["selector"] >= 1
    /\ Candidates(r) # <<>>
    /\ \/ /\ r.out["selector"] \in IntStrings
          /\ \/ int(r.out["selector"]) < 0
             \/ int(r.out["selector"]) >= Len(Candidates(r))
       \/ r.out["selector"] \notin (IntStrings \cup {"N/A", PyNone, Raised})

LaterStageFailed(r) ==
    \/ r.out["filing_search"] = "raise"
    \/ r.out["matcher"] \in {"raise", "not_found", "lookup_error"}
    \/ r.out["selector"] \in {Raised, PyNone, "N/A"}
    \/ InvalidSelection(r)
    \/ r.out["fetcher"] \in {"raise", "none"}

\* C2 as stated: a run whose identity was resolved and whose synthesis did
\* not raise ends with a report appended, and when the filing search, the
\* matcher, the selector or the fetcher failed, synthesis was still called,
\* without a document path.
C2_OnlyIdentityFailureAborts ==
    (Ended(run) /\ identity_usable(run.report_data.company_data)
        /\ run.out["synthesizer"] # "raise")
    => /\ run.pc = "done"
       /\ run.appended
       /\ LaterStageFailed(run) =>
              (run.calls["synthesizer"] >= 1 /\ run.synth_path = PyNone)

DegradationPoints ==
    {"not in registry", "lookup error", "no candidate matches",
     "selector invalid", "documents unavailable"}

\* The degradation points a run of the local-registry flow went through.
PointsOf(r) ==
    {p \in DegradationPoints :
        \/ p = "not in registry" /\ r.out["matcher"] = "not_found"
        \/ p = "lookup error" /\ r.out["matcher"] \in {"lookup_error", "raise"}
        \/ p = "no candidate matches" /\ r.out["selector"] = "N/A"
        \/ p = "selector invalid" /\ InvalidSelection(r)
        \/ p = "documents unavailable" /\ r.out["fetcher"] = "none"}

\* The point a recorded web_search_reason stands for.
PointNamedBy(reason) ==
    CASE reason = "not in dart list" -> "not in registry"
      [] reason = "error in dart lookup" -> "lookup error"
      [] reason = "corp code generation failed - N/A" -> "no candidate matches"
      [] reason = "corp code generation failed" -> "no candidate matches"
      [] reason = "corp code generation failed - invalid index" -> "selector invalid"
      [] reason = "corp code generation failed - non-integer index" -> "selector invalid"
      [] OTHER -> "none"

\* C3 as stated: a report appended by a local-registry run that went through
\* a degradation point carries a fallback reason, and the reason names that
\* point.
C3_ReasonIdentifiesPoint ==
    (run.pc = "done" /\ run.report_data.language = "korean"
        /\ PointsOf(run) # {})
    => /\ run.report_data.web_search_reason # Absent
       /\ PointNamedBy(run.report_data.web_search_reason) \in PointsOf(run)

SelectorInvalidReasons ==
    {"corp code generation failed - invalid index",
     "corp code generation failed - non-integer index"}

\* C4 as stated: after an out-of-range, negative or non-integer selector
\* answer the run has recorded a selector-invalid reason, has selected no
\* candidate, never calls the fetcher and synthesizes without a document
\* path.
C4_InvalidSelectionFallsBack ==
    InvalidSelection(run)
    => /\ run.report_data.web_search_reason \in SelectorInvalidReasons
       /\ run.report_data.corp_code_data = <<>>
       /\ run.calls["fetcher"] = 0
       /\ run.calls["synthesizer"] >= 1 => run.synth_path = PyNone

\* C5 as stated: a run whose synthesis raised ends with a report appended
\* whose 'report' is the diagnostic message, and every listed report has a
\* 'report' and a company name.
C5_BodyAlwaysDefined ==
    /\ (Ended(run) /\ run.out["synthesizer"] \in {"raise", TypeErrorRaised})
       => /\ run.pc = "done"
          /\ run.report_data.report = ErrorGeneratingReport
          /\ run.appended
    /\ \A i \in 1..Len(report_list) :
          /\ report_list[i].report # Absent
          /\ report_list[i].company_data.company_name # Absent

\* C10 as stated: the report appended by a local-registry run either has a
\* selected record, a synthesis from a fetched path and no fallback reason,
\* or has a fallback reason and a synthesis without a path; never both,
\* never neither.
C10_ExactlyOneSource ==
    (run.pc = "done" /\ run.report_data.language = "korean")
    => LET a == run.report_data
           documents == /\ a.corp_code_data # <<>>
                        /\ run.calls["synthesizer"] >= 1
                        /\ run.synth_path \notin {PyNone, "-"}
           fallback == /\ a.web_search_reason # Absent
                       /\ run.calls["synthesizer"] >= 1
                       /\ run.synth_path = PyNone
       IN  /\ (documents /\ a.web_search_reason = Absent) \/ fallback
           /\ ~(a.web_search_reason # Absent /\ run.synth_path \notin {PyNone, "-"})

\* res holds, in the order of lis, exactly the records of lis that contain
\* name.
RecordsContaining(res, lis, name) ==
    \E f \in [1..Len(res) -> 1..Len(lis)] :
        /\ \A k \in 1..Len(res) : res[k] = lis[f[k]]
        /\ \A k, l \in 1..Len(res) : k < l => f[k] < f[l]
        /\ {f[k] : k \in 1..Len(res)} = {i \in 1..Len(lis) : str_in(name, lis[i])}

SomeContains(lis, name) == \E i \in 1..Len(lis) : str_in(name, lis[i])

\* C16: short_list over a loaded snapshot returns, in snapshot order, exactly
\* the records containing the full name if there is one; otherwise exactly
\* those containing the short name if there is one; otherwise the
\* not-in-registry sentinel; a snapshot that cannot be loaded gives an error
\* text different from that sentinel.
C16_ShortList ==
    LET c == short_list_call
    IN  (c.returned /\ c.result.kind # "-") =>
            IF ~c.loadable
            THEN c.result.kind = "str" /\ c.result.str # NotInDartList
            ELSE IF SomeContains(c.lis, c.company_name)
            THEN /\ c.result.kind = "list"
                 /\ RecordsContaining(c.result.list, c.lis, c.company_name)
            ELSE IF SomeContains(c.lis, c.company_first_name)
            THEN /\ c.result.kind = "list"
                 /\ RecordsContaining(c.result.list, c.lis, c.company_first_name)
            ELSE c.result.kind = "str" /\ c.result.str = NotInDartList

\* The full name matched nothing and short_list returned the one record of
\* a two-record snapshot that contains the short name.
C16_Witness ==
    LET c == short_list_call
    IN  /\ c.returned /\ c.loadable
        /\ ~SomeContains(c.lis, c.company_name)
        /\ c.result.kind = "list"
        /\ Len(c.result.list) = 1
        /\ Len(c.lis) = 2

\* C11 as stated: when the remote registry raised during the lookup inside
\* get_dart_company_information, the run records the reason 'error in dart
\* lookup', not 'not in dart list'.
C11_LookupErrorDistinct ==
    run.out["matcher"] = "lookup_error" =>
        /\ run.report_data.corp_short_list_data.str # NotInDartList
        /\ run.report_data.web_search_reason = "error in dart lookup"

Korean(r) == r.report_data.language = "korean"

SynthesisCalled(r) == r.calls["synthesizer"] >= 1

WithDocumentPath(r) == SynthesisCalled(r) /\ r.synth_path \notin {"-", PyNone}

WithoutPath(r) == SynthesisCalled(r) /\ r.synth_path = PyNone

NoFilings(r) ==
    \/ r.out["filing_search"] = "none"
    \/ r.out["filing_search"] = "dict" /\ r.report_data.filings_data.filings = <<>>

UrlsReturned(r) == SelectSeq(r.report_data.filings_data.filings, HasFilingUrl)

FirstTwo(urls) == SubSeq(urls, 1, IF Len(urls) < 2 THEN Len(urls) ELSE 2)

English(r) == r.report_data.language = "english"

\* C14 as stated: the source list given to sec_get_report is the first
\* min(2, k) of the k filingUrl values returned, in order, and the report
\* has no fallback reason.
C14_Original ==
    (English(run) /\ SynthesisCalled(run)) =>
        /\ run.synth_sources = FirstTwo(UrlsReturned(run))
        /\ run.report_data.web_search_reason = Absent

\* C14 as amended: the source list given to sec_get_report is the list of
\* all k filingUrl values returned (filings without one skipped, order
\* kept), not only the first two, and the report has no fallback reason.
C14_AllUrls ==
    (English(run) /\ SynthesisCalled(run)) =>
        /\ run.synth_sources = UrlsReturned(run)
        /\ run.report_data.web_search_reason = Absent

\* Three filings were found and the report synthesized from them is listed.
C14_Witness ==
    /\ English(run) /\ run.pc = "done"
    /\ Len(run.report_data.filings_data.filings) = 3
    /\ Len(run.synth_sources) = 3
    /\ run.report_data.web_search_reason = Absent

ValidSelection(r) ==
    /\ r.out["selector"] \in IntStrings
    /\ 0 <= int(r.out["selector"])
    /\ int(r.out["selector"]) < Len(Candidates(r))

\* C15 as stated: after candidates, an in-range selection and a document
\* path from the fetcher, the run ends (unless the researcher itself fails)
\* with one hybrid synthesis over that path and a listed report that has
\* report_source 'hybrid', the selected record, the synthesized text and no
\* fallback reason.
C15_HybridSuccess ==
    (Ended(run) /\ Korean(run) /\ ValidSelection(run)
        /\ run.out["fetcher"] = "path" /\ run.out["synthesizer"] # "raise")
    => /\ run.pc = "done"
       /\ run.calls["synthesizer"] = 1
       /\ run.synth_path = folder_name(run.corp_code_value)
       /\ run.report_data.report_source = "hybrid"
       /\ run.report_data.corp_code_data = <<Candidates(run)[int(run.out["selector"]) + 1]>>
       /\ run.report_data.report = ReportText
       /\ run.report_data.web_search_reason = Absent
       /\ run.appended

\* C17 as stated: dart_search returns None for an unknown id, a raising
\* extraction or zero extracted statements; a returned path is the per-id
\* subdirectory of temp_dir and holds at least one file, one per extracted
\* statement.
C17_DartSearchResult ==
    /\ run.fetch_case \in {"unknown", "extract_raise", "no_statements"}
       => run.out["fetcher"] = "none"
    /\ run.out["fetcher"] = "path"
       => /\ run.doc_path = folder_name(run.corp_code_value)
          /\ run.saved # {}
          /\ Cardinality(run.saved) = Len(run.fs_results)

\* C18: dart_search has returned its path only after every save task it
\* dispatched has finished, and no synthesis call is made while a save is
\* pending.
C18_SavesJoined ==
    /\ run.out["fetcher"] = "path" => run.pending = {}
    /\ run.pc = "dart_hybrid" => run.pending = {}
    /\ SynthesisCalled(run) => run.pending = {}

\* Two saves were dispatched, both have finished, and synthesis over the
\* path has been called.
C18_Witness ==
    /\ Len(run.fs_results) = 2
    /\ Cardinality(run.saved) = 2
    /\ run.out["fetcher"] = "path"
    /\ WithDocumentPath(run)

\* C19: the temporary directory exists from the fetch until the synthesis
\* that follows it has finished, is gone when the run has ended in any way,
\* and a synthesis over a document path is called only while it exists.
C19_WorkspaceScoped ==
    /\ run.pc \in {"saving", "dart_fallback", "dart_hybrid"} => run.temp_dir = "exists"
    /\ run.pc \in {"done", "aborted", "stopped"} => run.temp_dir # "exists"
    /\ WithDocumentPath(run) => run.synth_ws = "exists"

\* A hybrid synthesis has run inside the directory and the run has ended
\* with the directory removed.
C19_Witness ==
    /\ run.pc = "done"
    /\ WithDocumentPath(run)
    /\ run.synth_ws = "exists"
    /\ run.temp_dir = "removed"

\* C20: within one run every stage is called at most once.
C20_NoRetry ==
    \A s \in Stages : run.calls[s] <= 1

\* An invalid selector answer was followed by the single web synthesis and
\* the run has ended.
C20_Witness ==
    /\ InvalidSelection(run)
    /\ run.calls["selector"] = 1
    /\ run.calls["synthesizer"] = 1
    /\ run.pc = "done"


\* ---------------------------------------------------------------- C21
\* What the stages invoked so far in this run satisfy: a later stage only
\* after the resolver; the selector only after the matcher returned a
\* non-empty candidate list; the fetcher only after an in-range selection,
\* and for the corp_code of the candidate at that index; no matcher,
\* selector or fetcher in an English run, no filing search in a Korean run.
StagePreconditions ==
    /\ \A s \in LaterStages : run.calls[s] >= 1 => run.calls["resolver"] >= 1
    /\ run.calls["selector"] >= 1 =>
           /\ run.out["matcher"] = "list"
           /\ Candidates(run) # <<>>
    /\ run.calls["fetcher"] >= 1 =>
           /\ ValidSelection(run)
           /\ run.corp_code_value =
                  Candidates(run)[int(run.out["selector"]) + 1].corp_code
    /\ English(run) => \A s \in {"matcher", "selector", "fetcher"} : run.calls[s] = 0
    /\ Korean(run) => run.calls["filing_search"] = 0

\* Once the synthesizer was invoked, the run invokes no stage again (the
\* next invocation belongs to a new run, which starts with no calls).
SynthesisIsLast ==
    (run.calls["synthesizer"] >= 1 /\ run'.calls # run.calls) =>
        run'.calls = [NoCalls EXCEPT !["resolver"] = run'.calls["resolver"]]

\* C21: the stages of a run are invoked in the order resolver, (filing
\* search | matcher, selector, fetcher), synthesizer, each only after the
\* stage before it returned what it needs: candidates for the selector, an
\* in-range index for the fetcher, which gets that candidate's corp_code.
C21_StageOrder == []StagePreconditions /\ [][SynthesisIsLast]_vars


\* ---------------------------------------------------------------- C22
Terminal(r) == r.pc \in {"done", "aborted", "stopped"}

RECURSIVE SumCalls(_, _)
SumCalls(calls, stages) ==
    IF stages = {} THEN 0
    ELSE LET s == CHOOSE x \in stages : TRUE
         IN  calls[s] + SumCalls(calls, stages \ {s})

StageInvocations(r) == SumCalls(r.calls, Stages)

\* C22: if every external call returns or raises, a started run ends: its
\* report is appended or the flow returns without one (or a widget event
\* reruns the script and abandons it), and it gets there with fewer stage
\* invocations than there are stages.
C22_RunTerminates ==
    /\ [](Running(run) => <>Terminal(run))
    /\ [](StageInvocations(run) < Cardinality(Stages))

\* A Korean run went through all its five stages and appended its report.
C22_Witness ==
    /\ run.pc = "done"
    /\ run.appended
    /\ StageInvocations(run) = Cardinality(Stages) - 1


\* ---------------------------------------------------------------- C23
\* What find_by_corp_name attempt k would answer: no corporation (it
\* returns nothing or raises), or the corporations it matches.
YieldsNothing(remote, k) == remote.find[k].corps = <<>>

\* C23: get_dart_company_information makes attempt k (1: full name exact,
\* 2: full name fuzzy, 3: first name exact, 4: first name fuzzy) exactly
\* when every attempt before it yielded nothing, answers with the records
\* of the first attempt that matched, and answers the not-in-the-list
\* sentinel only after all four attempts were made and yielded nothing.
C23_MatchCascade ==
    (matcher_call.returned /\ matcher_call.remote.corp_list = "ok") =>
        LET remote == matcher_call.remote
            result == matcher_call.result
        IN  /\ \A k \in 1..4 :
                   k \in result.attempts <=>
                       \A j \in 1..(k - 1) : YieldsNothing(remote, j)
            /\ result.kind = "str" =>
                   /\ result.attempts = 1..4
                   /\ \A k \in 1..4 : YieldsNothing(remote, k)
            /\ result.kind = "list" =>
                   \E k \in 1..4 :
                       /\ ~YieldsNothing(remote, k)
                       /\ \A j \in 1..(k - 1) : YieldsNothing(remote, j)
                       /\ result.list = [i \in 1..Len(remote.find[k].corps) |->
                                            get_corp_info(remote.find[k].corps[i])]


\* ---------------------------------------------------------------- C24
\* The text the model finally answered with: the follow-up content when a
\* follow-up call was made, else the content of the first response.
FinalText(call) ==
    IF call.first.tool_calls # <<>> THEN call.followup ELSE call.first.content

NoContent(text) == text = PyNone \/ text = ""

\* C24: generate_company_information does not raise on unusable model
\* output: a final text that is not JSON gives an error result carrying
\* that text, a response with neither content nor tool calls gives an
\* error result, and any other final text gives the parsed object.
C24_NeverRaises ==
    resolver_call.returned =>
        LET value == resolver_call.result.value
            text == FinalText(resolver_call)
        IN  /\ value.kind # "raise"
            /\ (~NoContent(text) /\ text \notin JsonObjects) =>
                   (value.kind = "error" /\ value.raw_content = text)
            /\ (NoContent(resolver_call.first.content)
                    /\ resolver_call.first.tool_calls = <<>>) => value.kind = "error"
            /\ text \in JsonObjects =>
                   (value.kind = "parsed" /\ value.content = text)

\* ---------------------------------------------------------------- C25
QueryCarried(tool_call) == tool_call.arguments \in {QueryArgs, PromptArgs}

\* C25: at most two model calls; the follow-up call is made exactly when
\* the first response has tool calls; each tool call is answered by one
\* tool message, in call order; a tavily_web_search call that carries a
\* query is answered with search results, not with an error message.
C25_ToolRoundTrip ==
    resolver_call.returned =>
        LET first == resolver_call.first
            result == resolver_call.result
        IN  /\ result.model_calls <= 2
            /\ result.model_calls = 2 <=> first.tool_calls # <<>>
            /\ Len(result.messages) = Len(first.tool_calls)
            /\ \A i \in 1..Len(first.tool_calls) :
                   /\ result.messages[i].tool_call_id = i
                   /\ result.messages[i].name = first.tool_calls[i].name
                   /\ (first.tool_calls[i].name = "tavily_web_search"
                           /\ QueryCarried(first.tool_calls[i])) =>
                          result.messages[i].content.kind = "results"


\* ---------------------------------------------------------------- C26
\* The messages that tell the reader why a report fell back to web search.
ReasonMessages ==
    {Msg.NotInDartList, Msg.NotInShortList, Msg.LookupError, Msg.CorpCodeFailed,
     Msg.NotFoundInDartList}

\* The message that belongs to a stored web_search_reason.
MessageOf(reason) ==
    CASE PointNamedBy(reason) = "not in registry" -> Msg.NotInDartList
      [] PointNamedBy(reason) = "lookup error" -> Msg.LookupError
      [] PointNamedBy(reason) \in {"no candidate matches", "selector invalid"} ->
             Msg.CorpCodeFailed
      [] reason = "not in short dart list" -> Msg.NotInShortList
      [] OTHER -> "-"

\* The messages that present a company as found and processed normally.
NormalMessages == {Msg.FoundInShortList, Msg.CorpCodeGenerated, Msg.DartSuccess}

\* C26: for every listed Korean report, display_report shows the message
\* of the stored web_search_reason, and a web-only report is shown with a
\* reason for the fallback and with none of the messages of a normal run.
C26_ReasonsDisplayed ==
    \A i \in 1..Len(report_list) :
        LET report == report_list[i]
            shown == display_report(report, variant)
        IN  report.language = "korean" =>
                /\ report.web_search_reason # Absent =>
                       MessageOf(report.web_search_reason) \in shown
                /\ report.report_source = "web" =>
                       /\ shown \cap ReasonMessages # {}
                       /\ shown \cap NormalMessages = {}


\* ---------------------------------------------------------------- C27
\* C27: a Korean run that appended its report has invoked the synthesizer
\* exactly once, also when the candidate selected at a valid index has no
\* 'corp_code'.
C27_OneSynthesisPerArtifact ==
    (Korean(run) /\ run.appended) => run.calls["synthesizer"] = 1


\* ---------------------------------------------------------------- C28
Listed(report) == \E i \in 1..Len(report_list) : report_list[i] = report

\* C28: after any sequence of generate, view, remove and navigate events
\* the report on display is none or one of the reports in report_list (so
\* removing the report on display has cleared the display).
C28_DisplayedIsListed ==
    report_to_display # <<>> => Listed(report_to_display[1])


\* ---------------------------------------------------------------- C29
\* A matcher's answer is a non-empty candidate list or a non-empty text.
ListOrSentinel(m) ==
    \/ m.kind = "list" /\ m.list # <<>>
    \/ m.kind = "str" /\ m.str # ""

NamesRemovedWorkspace(r) ==
    /\ r.temp_dir = "removed"
    /\ r.doc_path # PyNone
    /\ environ.DOC_PATH = r.doc_path

\* This step is a synthesis call that was given no document path.
WebOnlySynthesisStep ==
    /\ run'.calls["synthesizer"] > run.calls["synthesizer"]
    /\ run'.synth_path = PyNone

\* C30: once a hybrid run has ended, DOC_PATH does not name the removed
\* workspace of that run; a synthesis call without a document path starts
\* with DOC_PATH naming no workspace of an earlier run, and leaves DOC_PATH
\* as it was.
C30_DocPathScoped ==
    /\ [](~NamesRemovedWorkspace(run))
    /\ [][WebOnlySynthesisStep =>
              (environ.DOC_PATH = Absent /\ environ' = environ)]_vars

====
